---- MODULE Spec2Model ----
(***************************************************************************)
(* py-regex: the Pythonic wrapper (src/src/regex.ts) over the PCRE engine  *)
(* and its compile helpers (compile.ts, kept as src/unnamed/part_002).     *)
(*                                                                         *)
(* A string is a sequence of one-character strings, offsets are 0-based    *)
(* as in the source.  A pattern is what the caller hands to compile(); a   *)
(* PCRERegex is the program pcre.compile made of the pattern text the      *)
(* wrapper handed to it, plus the ANCHORED option.                         *)
(***************************************************************************)
EXTENDS Integers, Sequences, FiniteSets, TLC

(***************************************************************************)
(* Bounds of the model.                                                    *)
(***************************************************************************)
\* patterns are concatenations of at most MaxParts pattern parts
MaxParts == 2
\* subject texts have at most MaxTextLen characters
MaxTextLen == 2

\* the longest string given to regex.escape, in characters
MaxLiteralLen == 2

(***************************************************************************)
(* Strings.                                                                *)
(***************************************************************************)
Digits == {"0", "1", "2", "3", "4", "5", "6", "7", "8", "9"}

Letters ==
  {"a", "b", "c", "d", "e", "f", "g", "h", "i", "j", "k", "l", "m",
   "n", "o", "p", "q", "r", "s", "t", "u", "v", "w", "x", "y", "z",
   "A", "B", "C", "D", "E", "F", "G", "H", "I", "J", "K", "L", "M",
   "N", "O", "P", "Q", "R", "S", "T", "U", "V", "W", "X", "Y", "Z"}

\* \w of a JavaScript regular expression without the u/i flags
WordChars == Letters \cup Digits \cup {"_"}

\* s.substring(from, to) with 0-based offsets, to exclusive
Substring(s, from, to) == SubSeq(s, from + 1, to)

\* does the literal lit occur in s at 1-based index i
SubAt(s, i, lit) ==
  /\ i >= 1
  /\ i + Len(lit) - 1 <= Len(s)
  /\ \A k \in 1..Len(lit) : s[i + k - 1] = lit[k]

startsWith(s, lit) == SubAt(s, 1, lit)

endsWith(s, lit) == SubAt(s, Len(s) - Len(lit) + 1, lit)

RECURSIVE Flatten(_)
Flatten(parts) ==
  IF parts = <<>> THEN <<>> ELSE Head(parts) \o Flatten(Tail(parts))

RECURSIVE SeqsUpTo(_, _)
SeqsUpTo(S, n) ==
  IF n = 0 THEN {<<>>}
  ELSE LET shorter == SeqsUpTo(S, n - 1)
       IN  shorter \cup {Append(q, x) : q \in shorter, x \in S}

(***************************************************************************)
(* compile.ts: validatePattern, convertNamedGroups                         *)
(***************************************************************************)
PyNamedOpen == <<"(", "?", "P", "<">>

\* /\(\?P<>\w*\)/
EmptyNamedGroup(p) ==
  \E i \in 1..Len(p) :
    /\ SubAt(p, i, PyNamedOpen \o <<">">>)
    /\ \E j \in (i + 5)..Len(p) :
         /\ p[j] = ")"
         /\ \A k \in (i + 5)..(j - 1) : p[k] \in WordChars

\* /\(\?P<\d+>/
DigitNamedGroup(p) ==
  \E i \in 1..Len(p) :
    /\ SubAt(p, i, PyNamedOpen)
    /\ \E j \in (i + 5)..Len(p) :
         /\ p[j] = ">"
         /\ \A k \in (i + 4)..(j - 1) : p[k] \in Digits

\* /\(\?P<[^>]*$/
UnclosedNamedGroup(p) ==
  \E i \in 1..Len(p) :
    /\ SubAt(p, i, PyNamedOpen)
    /\ \A k \in (i + 4)..Len(p) : p[k] # ">"

\* /\(\?P\w+>/
MalformedNamedGroup(p) ==
  \E i \in 1..Len(p) :
    /\ SubAt(p, i, <<"(", "?", "P">>)
    /\ \E j \in (i + 4)..Len(p) :
         /\ p[j] = ">"
         /\ \A k \in (i + 3)..(j - 1) : p[k] \in WordChars

\* /^\*/
StartsWithQuantifier(p) == startsWith(p, <<"*">>)

\* /\[(?![^\]]*\])/
UnclosedBracket(p) ==
  \E i \in 1..Len(p) :
    /\ p[i] = "["
    /\ \A j \in (i + 1)..Len(p) : p[j] # "]"

\* /\((?![^)]*\))/
UnclosedParenthesis(p) ==
  \E i \in 1..Len(p) :
    /\ p[i] = "("
    /\ \A j \in (i + 1)..Len(p) : p[j] # ")"

validatePattern(p) ==
  /\ ~EmptyNamedGroup(p)
  /\ ~DigitNamedGroup(p)
  /\ ~UnclosedNamedGroup(p)
  /\ ~MalformedNamedGroup(p)
  /\ ~StartsWithQuantifier(p)
  /\ ~UnclosedBracket(p)
  /\ ~UnclosedParenthesis(p)

\* the index of the first ">" of p at or after index i, 0 when there is none
RECURSIVE FirstClose(_, _)
FirstClose(p, i) ==
  IF i > Len(p) THEN 0
  ELSE IF p[i] = ">" THEN i
  ELSE FirstClose(p, i + 1)

\* pattern.replace(/\(\?P<([^>]+)>/g, '(?<$1>') from index i on
RECURSIVE ConvertFrom(_, _)
ConvertFrom(p, i) ==
  IF i > Len(p) THEN <<>>
  ELSE LET j == FirstClose(p, i + 4)
       IN  IF SubAt(p, i, PyNamedOpen) /\ j > i + 4
           THEN <<"(", "?", "<">> \o SubSeq(p, i + 4, j) \o ConvertFrom(p, j + 1)
           ELSE <<p[i]>> \o ConvertFrom(p, i + 1)

\* convertNamedGroups that drops the names: (?P<name> becomes a plain "("
RECURSIVE ConvertNumberedFrom(_, _)
ConvertNumberedFrom(p, i) ==
  IF i > Len(p) THEN <<>>
  ELSE IF SubAt(p, i, PyNamedOpen) /\ FirstClose(p, i + 4) > i + 4
  THEN <<"(">> \o ConvertNumberedFrom(p, FirstClose(p, i + 4) + 1)
  ELSE <<p[i]>> \o ConvertNumberedFrom(p, i + 1)

convertNamedGroupsNumbered(p) == ConvertNumberedFrom(p, 1)

\* convertNamedGroups that makes the names differ: the k-th name gets k
\* underscores after it
RECURSIVE ConvertRenamedFrom(_, _, _)
ConvertRenamedFrom(p, i, tail) ==
  IF i > Len(p) THEN <<>>
  ELSE IF SubAt(p, i, PyNamedOpen) /\ FirstClose(p, i + 4) > i + 4
  THEN <<"(", "?", "<">> \o SubSeq(p, i + 4, FirstClose(p, i + 4) - 1)
         \o tail \o <<"_", ">">>
         \o ConvertRenamedFrom(p, FirstClose(p, i + 4) + 1, tail \o <<"_">>)
  ELSE <<p[i]>> \o ConvertRenamedFrom(p, i + 1, tail)

convertNamedGroupsRenamed(p) == ConvertRenamedFrom(p, 1, <<>>)

\* convertNamedGroups without the g flag: the first (?P<name> only
RECURSIVE ConvertFirstFrom(_, _)
ConvertFirstFrom(p, i) ==
  IF i > Len(p) THEN <<>>
  ELSE IF SubAt(p, i, PyNamedOpen) /\ FirstClose(p, i + 4) > i + 4
  THEN <<"(", "?", "<">> \o SubSeq(p, i + 4, Len(p))
  ELSE <<p[i]>> \o ConvertFirstFrom(p, i + 1)

convertNamedGroupsFirst(p) == ConvertFirstFrom(p, 1)

convertNamedGroups(p) == ConvertFrom(p, 1)

(***************************************************************************)
(* The PCRE engine behind pcre.compile / PCRERegex.exec: the parser.       *)
(*                                                                         *)
(* Syntax tree: lit(c), any, bol, eol, empty, cat(l, r), alt(l, r),        *)
(* grp(idx, kid) with idx = 0 for a non-capturing group, rep(min, max,     *)
(* mode, kid) with max = Unbounded for * and +.  A parse result carries    *)
(* the tree, the next index to read and the group table so far: names[k]   *)
(* is the name of capturing group k, <<>> for an unnamed one.              *)
(***************************************************************************)
Unbounded == 0 - 1

Lit(c) == [t |-> "lit", c |-> c]

Leaf(t) == [t |-> t]

Cat(l, r) == [t |-> "cat", l |-> l, r |-> r]

Alt(l, r) == [t |-> "alt", l |-> l, r |-> r]

Grp(idx, kid) == [t |-> "grp", idx |-> idx, kid |-> kid]

Rep(min, max, mode, kid) ==
  [t |-> "rep", min |-> min, max |-> max, mode |-> mode, kid |-> kid]

ParseOk(node, i, names) == [ok |-> TRUE, node |-> node, i |-> i, names |-> names]

ParseError == [ok |-> FALSE, node |-> Leaf("empty"), i |-> 0, names |-> <<>>]

Quantifiers == {"*", "+", "?"}

\* the characters a backslash turns into themselves (not alphanumeric)
IsPunctuation(c) == c \notin WordChars

\* the group name between index i and the next ">": word characters, the
\* first one no digit; an unnamed group has the empty name
NameAt(p, i) ==
  LET j == FirstClose(p, i)
  IN  IF /\ j > i
         /\ \A k \in i..(j - 1) : p[k] \in WordChars
         /\ p[i] \notin Digits
      THEN [ok |-> TRUE, name |-> SubSeq(p, i, j - 1), next |-> j + 1]
      ELSE [ok |-> FALSE, name |-> <<>>, next |-> 0]

\* the characters of the model in the order of their code points
CodeOrder ==
  <<"\t", "\n", "\r", " ", "!", "#", "$", "%", "&", "(", ")", "*",
    "+", ",", "-", ".", "/", "0", "1", "2", "3", "4", "5", "6", "7", "8", "9",
    ":", ";", "<", "=", ">", "?", "@", "A", "B", "C", "D", "E", "F", "G", "H",
    "I", "J", "K", "L", "M", "N", "O", "P", "Q", "R", "S", "T", "U", "V", "W",
    "X", "Y", "Z", "[", "\\", "]", "^", "_", "a", "b", "c", "d", "e", "f",
    "g", "h", "i", "j", "k", "l", "m", "n", "o", "p", "q", "r", "s", "t", "u",
    "v", "w", "x", "y", "z", "{", "|", "}", "~", "U+00E9">>

Code(c) == CHOOSE k \in 1..Len(CodeOrder) : CodeOrder[k] = c

\* a character class: the ranges <<first, last>> of its members
Class(neg, ranges) == [t |-> "class", neg |-> neg, ranges |-> ranges]

NoMember == [ok |-> FALSE, c |-> "", next |-> 0, ranges |-> {}]

\* the member of a class read at index i: a character or an escaped one
MemberAt(p, i) ==
  IF i > Len(p) THEN NoMember
  ELSE IF p[i] # "\\" THEN [NoMember EXCEPT !.ok = TRUE, !.c = p[i], !.next = i + 1]
  ELSE IF i + 1 <= Len(p) /\ IsPunctuation(p[i + 1])
  THEN [NoMember EXCEPT !.ok = TRUE, !.c = p[i + 1], !.next = i + 2]
  ELSE NoMember

RECURSIVE ParseMembers(_, _, _, _)

\* the range lo-hi: out of order when lo is the greater
RangeTo(p, lo, hi, ranges) ==
  IF ~hi.ok THEN NoMember
  ELSE IF Code(lo.c) > Code(hi.c) THEN NoMember
  ELSE ParseMembers(p, hi.next, FALSE, ranges \cup {<<lo.c, hi.c>>})

\* the member lo, alone or as the start of a range
RangeFrom(p, lo, ranges) ==
  IF ~lo.ok THEN NoMember
  ELSE IF lo.next + 1 <= Len(p) /\ p[lo.next] = "-" /\ p[lo.next + 1] # "]"
  THEN RangeTo(p, lo, MemberAt(p, lo.next + 1), ranges)
  ELSE ParseMembers(p, lo.next, FALSE, ranges \cup {<<lo.c, lo.c>>})

\* the members from index i up to the closing "]"; a "]" that comes first
\* is a member; the end of the pattern leaves the class unclosed
ParseMembers(p, i, first, ranges) ==
  IF i > Len(p) THEN NoMember
  ELSE IF p[i] = "]" /\ ~first
  THEN [NoMember EXCEPT !.ok = TRUE, !.next = i + 1, !.ranges = ranges]
  ELSE RangeFrom(p, MemberAt(p, i), ranges)

ClassNode(neg, m, names) ==
  IF ~m.ok THEN ParseError ELSE ParseOk(Class(neg, m.ranges), m.next, names)

\* p[i] = "[": a character class, negated by a leading "^"
ParseClass(p, i, names) ==
  IF SubAt(p, i, <<"[", "^">>)
  THEN ClassNode(TRUE, ParseMembers(p, i + 2, TRUE, {}), names)
  ELSE ClassNode(FALSE, ParseMembers(p, i + 1, TRUE, {}), names)

RECURSIVE ParseAlt(_, _, _)
RECURSIVE ParseCat(_, _, _)

\* the group whose body has been parsed must be closed by ")"
CloseGroup(p, body, idx) ==
  IF ~body.ok THEN ParseError
  ELSE IF body.i <= Len(p) /\ p[body.i] = ")"
  THEN ParseOk(Grp(idx, body.node), body.i + 1, body.names)
  ELSE ParseError

\* the body of a group starts at index i
ParseGroupBody(p, i, names, idx) == CloseGroup(p, ParseAlt(p, i, names), idx)

\* a named group whose name nm has been read
ParseNamedGroup(p, nm, names) ==
  IF ~nm.ok THEN ParseError
  \* two named subpatterns have the same name
  ELSE IF \E k \in 1..Len(names) : names[k] = nm.name THEN ParseError
  ELSE ParseGroupBody(p, nm.next, Append(names, nm.name), Len(names) + 1)

\* p[i] = "(": a non-capturing, named or plain capturing group; capturing
\* groups are numbered as their opening parenthesis is met
ParseGroup(p, i, names) ==
  IF SubAt(p, i, <<"(", "?", ":">>)
  THEN ParseGroupBody(p, i + 3, names, 0)
  ELSE IF SubAt(p, i, PyNamedOpen)
  THEN ParseNamedGroup(p, NameAt(p, i + 4), names)
  ELSE IF SubAt(p, i, <<"(", "?", "<">>)
  THEN ParseNamedGroup(p, NameAt(p, i + 3), names)
  ELSE IF SubAt(p, i, <<"(", "?">>) THEN ParseError
  ELSE ParseGroupBody(p, i + 1, Append(names, <<>>), Len(names) + 1)

ParseAtom(p, i, names) ==
  CASE p[i] = "(" -> ParseGroup(p, i, names)
    [] p[i] = ")" -> ParseError
    [] p[i] = "[" -> ParseClass(p, i, names)
    [] p[i] \in Quantifiers -> ParseError  \* nothing to repeat
    [] p[i] = "\\" ->
         IF i + 1 <= Len(p) /\ IsPunctuation(p[i + 1])
         THEN ParseOk(Lit(p[i + 1]), i + 2, names)
         ELSE ParseError
    [] p[i] = "^" -> ParseOk(Leaf("bol"), i + 1, names)
    [] p[i] = "$" -> ParseOk(Leaf("eol"), i + 1, names)
    [] p[i] = "." -> ParseOk(Leaf("any"), i + 1, names)
    [] OTHER -> ParseOk(Lit(p[i]), i + 1, names)

\* the quantifier at index i with the lazy (?) or possessive (+) mark after it
QuantifierAt(p, i) ==
  LET mark == IF i + 1 <= Len(p) THEN p[i + 1] ELSE ""
      mode == IF mark = "?" THEN "lazy"
              ELSE IF mark = "+" THEN "possessive"
              ELSE "greedy"
  IN  [min  |-> IF p[i] = "+" THEN 1 ELSE 0,
       max  |-> IF p[i] = "?" THEN 1 ELSE Unbounded,
       mode |-> mode,
       next |-> IF mode = "greedy" THEN i + 1 ELSE i + 2]

\* the atom a with the quantifier that follows it, if one does
Quantify(p, a) ==
  IF ~a.ok THEN ParseError
  ELSE IF a.i > Len(p) \/ p[a.i] \notin Quantifiers THEN a
  \* the circumflex and the dollar leave nothing to repeat
  ELSE IF a.node.t \in {"bol", "eol"} THEN ParseError
  ELSE ParseOk(Rep(QuantifierAt(p, a.i).min, QuantifierAt(p, a.i).max,
                   QuantifierAt(p, a.i).mode, a.node),
               QuantifierAt(p, a.i).next, a.names)

ParseQuantified(p, i, names) == Quantify(p, ParseAtom(p, i, names))

CatJoin(a, rest) ==
  IF ~rest.ok THEN ParseError
  ELSE ParseOk(Cat(a.node, rest.node), rest.i, rest.names)

CatRest(p, a) ==
  IF ~a.ok THEN ParseError ELSE CatJoin(a, ParseCat(p, a.i, a.names))

\* a sequence of quantified atoms, up to "|", ")" or the end
ParseCat(p, i, names) ==
  IF i > Len(p) \/ p[i] \in {"|", ")"}
  THEN ParseOk(Leaf("empty"), i, names)
  ELSE CatRest(p, ParseQuantified(p, i, names))

AltJoin(l, r) ==
  IF ~r.ok THEN ParseError
  ELSE ParseOk(Alt(l.node, r.node), r.i, r.names)

AltRest(p, l) ==
  IF ~l.ok THEN ParseError
  ELSE IF l.i <= Len(p) /\ p[l.i] = "|"
  THEN AltJoin(l, ParseAlt(p, l.i + 1, l.names))
  ELSE l

\* alternatives separated by "|", which binds weakest
ParseAlt(p, i, names) == AltRest(p, ParseCat(p, i, names))

\* a ")" left over is an unmatched parenthesis
Whole(p, r) == IF r.ok /\ r.i = Len(p) + 1 THEN r ELSE ParseError

\* the whole pattern
Parse(p) == Whole(p, ParseAlt(p, 1, <<>>))

(***************************************************************************)
(* The PCRE engine: the backtracking matcher.                              *)
(*                                                                         *)
(* MatchNode(node, s, pos, caps): the list of the ways node can match s at   *)
(* offset pos, in the order backtracking tries them; a way is <<end        *)
(* offset, capture slots>>, a slot <<start, end>> or Unset.                *)
(***************************************************************************)
Unset == <<0 - 1, 0 - 1>>

Newline == "\n"

RECURSIVE MatchNode(_, _, _, _)
RECURSIVE Then(_, _, _)
RECURSIVE Again(_, _, _, _)

\* every way of ways continued by node
Then(ways, node, s) ==
  IF ways = <<>> THEN <<>>
  ELSE MatchNode(node, s, Head(ways)[1], Head(ways)[2]) \o Then(Tail(ways), node, s)

\* every way of one more repetition continued by the repetition itself; a
\* repetition that matched the empty string ends the loop
Again(ways, rep, s, pos) ==
  IF ways = <<>> THEN <<>>
  ELSE (IF Head(ways)[1] > pos
        THEN MatchNode(rep, s, Head(ways)[1], Head(ways)[2])
        ELSE <<Head(ways)>>)
       \o Again(Tail(ways), rep, s, pos)

SetSlot(ways, idx, start) ==
  [k \in 1..Len(ways) |->
     <<ways[k][1], [ways[k][2] EXCEPT ![idx] = <<start, ways[k][1]>>]>>]

\* is the character c a member of the class
InClass(c, class) ==
  (\E r \in class.ranges : Code(r[1]) <= Code(c) /\ Code(c) <= Code(r[2]))
    # class.neg

MatchNode(node, s, pos, caps) ==
  LET here == << <<pos, caps>> >>
      step == << <<pos + 1, caps>> >>
  IN  CASE node.t = "empty" -> here
        [] node.t = "lit" ->
             IF pos < Len(s) /\ s[pos + 1] = node.c THEN step ELSE <<>>
        [] node.t = "any" ->
             IF pos < Len(s) /\ s[pos + 1] # Newline THEN step ELSE <<>>
        [] node.t = "class" ->
             IF pos < Len(s) /\ InClass(s[pos + 1], node) THEN step ELSE <<>>
        [] node.t = "bol" -> IF pos = 0 THEN here ELSE <<>>
        \* no DOLLAR_ENDONLY: the end, or just before a final newline
        [] node.t = "eol" ->
             IF \/ pos = Len(s)
                \/ pos = Len(s) - 1 /\ s[Len(s)] = Newline
             THEN here ELSE <<>>
        [] node.t = "cat" -> Then(MatchNode(node.l, s, pos, caps), node.r, s)
        [] node.t = "alt" ->
             MatchNode(node.l, s, pos, caps) \o MatchNode(node.r, s, pos, caps)
        [] node.t = "grp" ->
             IF node.idx = 0 THEN MatchNode(node.kid, s, pos, caps)
             ELSE SetSlot(MatchNode(node.kid, s, pos, caps), node.idx, pos)
        [] node.t = "rep" ->
             LET once == MatchNode(node.kid, s, pos, caps)
                 star == Rep(0, node.max, "greedy", node.kid)
                 more == IF node.max = 1 THEN once ELSE Again(once, star, s, pos)
                 \* + is the child once, then *
                 all  == IF node.min = 1
                         THEN (IF node.max = 1 THEN once ELSE Then(once, star, s))
                         ELSE more \o here
                 lazy == Rep(0, node.max, "lazy", node.kid)
                 less == IF node.max = 1 THEN once ELSE Again(once, lazy, s, pos)
             IN  CASE node.mode = "greedy" -> all
                   [] node.mode = "possessive" ->
                        IF all = <<>> THEN <<>> ELSE <<Head(all)>>
                   [] node.mode = "lazy" ->
                        IF node.min = 1
                        THEN Then(once, lazy, s)
                        ELSE here \o less


(***************************************************************************)
(* JavaScript values.                                                      *)
(***************************************************************************)
Undefined == [kind |-> "undefined", s |-> <<>>]

Str(s) == [kind |-> "string", s |-> s]

\* what a property inherited from Object.prototype evaluates to
Inherited(name) == [kind |-> "inherited", s |-> name]

\* a key handed to Match.group: a number (an integer n, or NaN, Infinity, a
\* fraction), a string, or a value of another type
IntKey(n) == [type |-> "number", n |-> n, special |-> "", s |-> <<>>]

NumberKey(special) == [type |-> "number", n |-> 0, special |-> special, s |-> <<>>]

StrKey(s) == [type |-> "string", n |-> 0, special |-> "", s |-> s]

OtherKey(what) == [type |-> what, n |-> 0, special |-> "", s |-> <<>>]

\* ToPropertyKey of a key that is not a number
ToPropertyKey(key) ==
  CASE key.type = "string" -> key.s
    [] key.type = "null" -> <<"n", "u", "l", "l">>
    [] key.type = "undefined" -> <<"u", "n", "d", "e", "f", "i", "n", "e", "d">>
    [] key.type = "object" ->
         <<"[", "o", "b", "j", "e", "c", "t", " ", "O", "b", "j", "e", "c", "t", "]">>
    [] key.type = "array" -> <<>>

\* the properties every object literal inherits from Object.prototype
ObjectPrototypeProps ==
  {<<"c", "o", "n", "s", "t", "r", "u", "c", "t", "o", "r">>,
   <<"_", "_", "d", "e", "f", "i", "n", "e", "G", "e", "t", "t", "e", "r", "_", "_">>,
   <<"_", "_", "d", "e", "f", "i", "n", "e", "S", "e", "t", "t", "e", "r", "_", "_">>,
   <<"h", "a", "s", "O", "w", "n", "P", "r", "o", "p", "e", "r", "t", "y">>,
   <<"_", "_", "l", "o", "o", "k", "u", "p", "G", "e", "t", "t", "e", "r", "_", "_">>,
   <<"_", "_", "l", "o", "o", "k", "u", "p", "S", "e", "t", "t", "e", "r", "_", "_">>,
   <<"i", "s", "P", "r", "o", "t", "o", "t", "y", "p", "e", "O", "f">>,
   <<"p", "r", "o", "p", "e", "r", "t", "y", "I", "s", "E", "n", "u", "m", "e", "r", "a", "b", "l", "e">>,
   <<"t", "o", "S", "t", "r", "i", "n", "g">>,
   <<"v", "a", "l", "u", "e", "O", "f">>,
   <<"_", "_", "p", "r", "o", "t", "o", "_", "_">>,
   <<"t", "o", "L", "o", "c", "a", "l", "e", "S", "t", "r", "i", "n", "g">>}

\* name in obj, for an object literal obj
In(name, obj) == name \in DOMAIN obj \/ name \in ObjectPrototypeProps

\* obj[name], for an object literal obj
Get(obj, name) ==
  IF name \in DOMAIN obj THEN obj[name]
  ELSE IF name \in ObjectPrototypeProps THEN Inherited(name)
  ELSE Undefined

\* arr[key] for an array and a number key: an element only at an integer
\* index within the array
At(arr, key) ==
  IF key.special = "" /\ key.n >= 0 /\ key.n < Len(arr)
  THEN arr[key.n + 1]
  ELSE [value |-> Undefined, index |-> 0 - 1, present |-> FALSE]

(***************************************************************************)
(* The PCRE engine: pcre.compile, PCRERegex.exec / test / getNamedGroups.  *)
(***************************************************************************)
\* the PCRERegex of a parsed pattern: the program and its group table
Compiled(parsed, anchored) ==
  [ok |-> parsed.ok, prog |-> parsed.node, names |-> parsed.names,
   anchored |-> anchored]

\* pcre.compile(pattern, opts): a PCRERegex, with ok = FALSE when it throws
pcreCompile(pat, anchored) == Compiled(Parse(pat), anchored)

NoRegex == Compiled(ParseError, FALSE)

\* the PCREMatch array of a way found from offset start; slot 0 is the
\* whole match, an unset group has no value
PCREMatches(s, start, way) ==
  [k \in 1..(Len(way[2]) + 1) |->
     IF k = 1
     THEN [value |-> Str(Substring(s, start, way[1])), index |-> start,
           present |-> TRUE]
     ELSE IF way[2][k - 1] = Unset
     THEN [value |-> Undefined, index |-> 0 - 1, present |-> TRUE]
     ELSE [value |-> Str(Substring(s, way[2][k - 1][1], way[2][k - 1][2])),
           index |-> way[2][k - 1][1], present |-> TRUE]]

NoMatches == <<>>

\* the first of the ways found from offset start, or NoMatches
FirstWay(s, start, ways) ==
  IF ways = <<>> THEN NoMatches ELSE PCREMatches(s, start, Head(ways))

\* one attempt at offset start
ExecAt(re, s, start) ==
  FirstWay(s, start,
           MatchNode(re.prog, s, start, [k \in 1..Len(re.names) |-> Unset]))

\* the attempts at start, start + 1, ... up to the end of s
RECURSIVE ExecFrom(_, _, _)

OrLater(m, re, s, start) ==
  IF m # NoMatches THEN m ELSE ExecFrom(re, s, start + 1)

ExecFrom(re, s, start) ==
  IF start > Len(s) THEN NoMatches
  ELSE OrLater(ExecAt(re, s, start), re, s, start)

\* regex.exec(text, start): the PCREMatch array, NoMatches for null
exec(re, s, start) ==
  IF re.anchored THEN ExecAt(re, s, start) ELSE ExecFrom(re, s, start)

\* regex.test(text, start)
regexTest(re, s, start) == exec(re, s, start) # NoMatches

\* the group table as name -> index
NameTable(names) ==
  [nm \in {names[k] : k \in {j \in 1..Len(names) : names[j] # <<>>}} |->
     CHOOSE k \in 1..Len(names) : names[k] = nm]

\* regex.getNamedGroups()
getNamedGroups(re) == NameTable(re.names)

(***************************************************************************)
(* compile.ts: compileRegex, compileRegexPartial, compileRegexAnchored     *)
(***************************************************************************)
\* compileRegex that adds the "^" and leaves the "$" out
compileRegexOpenEnded(pattern) ==
  IF ~validatePattern(pattern) THEN NoRegex
  ELSE pcreCompile(IF startsWith(convertNamedGroups(pattern), <<"^">>)
                   THEN convertNamedGroups(pattern)
                   ELSE <<"^">> \o convertNamedGroups(pattern), TRUE)

\* compileRegex that anchors with a group of its own: "^(" pattern ")$"
compileRegexGrouped(pattern) ==
  IF ~validatePattern(pattern) THEN NoRegex
  ELSE pcreCompile(<<"^", "(">> \o convertNamedGroups(pattern) \o <<")", "$">>,
                   TRUE)

compileRegex(pattern) ==
  IF ~validatePattern(pattern) THEN NoRegex
  ELSE LET pcrePattern     == convertNamedGroups(pattern)
           anchoredPattern == IF startsWith(pcrePattern, <<"^">>)
                              THEN pcrePattern
                              ELSE <<"^">> \o pcrePattern
           finalPattern    == IF endsWith(anchoredPattern, <<"$">>)
                              THEN anchoredPattern
                              ELSE anchoredPattern \o <<"$">>
       IN  pcreCompile(finalPattern, TRUE)

\* compileRegexPartial with the ANCHORED option set by mistake
compileRegexPartialFixed(pattern) ==
  IF ~validatePattern(pattern) THEN NoRegex
  ELSE pcreCompile(convertNamedGroups(pattern), TRUE)

\* compileRegexPartial whose catch does not throw again: the caller gets a
\* PCRERegex whatever the engine said
compileRegexPartialSilent(pattern) ==
  IF ~validatePattern(pattern) THEN NoRegex
  ELSE [pcreCompile(convertNamedGroups(pattern), FALSE) EXCEPT !.ok = TRUE]

compileRegexPartial(pattern) ==
  IF ~validatePattern(pattern) THEN NoRegex
  ELSE pcreCompile(convertNamedGroups(pattern), FALSE)

\* compileRegexAnchored with the ANCHORED option left out by mistake
compileRegexFloating(pattern) ==
  IF ~validatePattern(pattern) THEN NoRegex
  ELSE pcreCompile(convertNamedGroups(pattern), FALSE)

compileRegexAnchored(pattern) ==
  IF ~validatePattern(pattern) THEN NoRegex
  ELSE pcreCompile(convertNamedGroups(pattern), TRUE)

(***************************************************************************)
(* escape.ts: escapeRegex, exported as regex.escape                        *)
(***************************************************************************)
\* the character class of str.replace(/[.*+?^${}()|[\]\\ ]/g, '\\$&')
EscapedChars ==
  {".", "*", "+", "?", "^", "$", "{", "}", "(", ")", "|", "[", "]", "\\", " "}

\* escapeRegex with the class of the usual JavaScript idiom, the space left
\* out (/[.*+?^${}()|[\]\\]/g)
RECURSIVE escapeRegexNoSpace(_)
escapeRegexNoSpace(str) ==
  IF str = <<>> THEN <<>>
  ELSE (IF Head(str) \in EscapedChars \ {" "}
        THEN <<"\\", Head(str)>>
        ELSE <<Head(str)>>) \o escapeRegexNoSpace(Tail(str))

\* every match of the class is replaced by a backslash and the match ($&)
RECURSIVE escapeRegex(_)
escapeRegex(str) ==
  IF str = <<>> THEN <<>>
  ELSE (IF Head(str) \in EscapedChars
        THEN <<"\\", Head(str)>>
        ELSE <<Head(str)>>) \o escapeRegex(Tail(str))

(***************************************************************************)
(* regex.ts: makeMatch, Match.group, compile and the four query methods    *)
(***************************************************************************)
\* the named groups whose slot holds a value
SetNames(pcreMatch, namedGroups) ==
  {name \in DOMAIN namedGroups :
     LET e == At(pcreMatch, IntKey(namedGroups[name]))
     IN  e.present /\ e.value # Undefined}

\* pcreMatch[0]?.value || ''
fullMatchOf(pcreMatch) ==
  LET v == At(pcreMatch, IntKey(0)).value
  IN  IF v = Undefined THEN <<>> ELSE v.s

\* makeMatch with a truthiness test of the value (if (pcreMatch[idx]?.value))
\* in the place of the comparison with undefined
makeMatchTruthy(pcreMatch, namedGroups) ==
  [pcreMatch |-> pcreMatch,
   groups    |-> [name \in {nm \in SetNames(pcreMatch, namedGroups) :
                              At(pcreMatch, IntKey(namedGroups[nm])).value # Str(<<>>)} |->
                    At(pcreMatch, IntKey(namedGroups[name])).value],
   fullMatch |-> fullMatchOf(pcreMatch)]

makeMatch(pcreMatch, namedGroups) ==
  [pcreMatch |-> pcreMatch,
   groups    |-> [name \in SetNames(pcreMatch, namedGroups) |->
                    At(pcreMatch, IntKey(namedGroups[name])).value],
   fullMatch |-> fullMatchOf(pcreMatch)]

\* Match.group that reads the slots only, whatever the type of the key
\* (return pcreMatch[nameOrIndex]?.value)
groupSlotsOnly(match, nameOrIndex) ==
  IF nameOrIndex.type = "number"
  THEN At(match.pcreMatch, nameOrIndex).value
  ELSE Undefined

\* Match.group that counts the groups from 0 and leaves the whole match out
\* (return pcreMatch[nameOrIndex + 1]?.value)
groupFromZero(match, nameOrIndex) ==
  IF nameOrIndex.type = "number"
  THEN IF nameOrIndex.special = ""
       THEN At(match.pcreMatch, IntKey(nameOrIndex.n + 1)).value
       ELSE Undefined
  ELSE IF In(ToPropertyKey(nameOrIndex), match.groups)
  THEN Get(match.groups, ToPropertyKey(nameOrIndex))
  ELSE Undefined

\* Match.group(nameOrIndex)
group(match, nameOrIndex) ==
  IF nameOrIndex.type = "number"
  THEN At(match.pcreMatch, nameOrIndex).value
  ELSE IF In(ToPropertyKey(nameOrIndex), match.groups)
  THEN Get(match.groups, ToPropertyKey(nameOrIndex))
  ELSE Undefined

\* what a query method returns: null, a Match or (test) a boolean
NoMatch == [pcreMatch |-> <<>>, groups |-> <<>>, fullMatch |-> <<>>]

NoResult == [kind |-> "none", match |-> NoMatch, bool |-> FALSE]

Null == [kind |-> "null", match |-> NoMatch, bool |-> FALSE]

MatchResult(match) == [kind |-> "match", match |-> match, bool |-> FALSE]

BoolResult(b) == [kind |-> "boolean", match |-> NoMatch, bool |-> b]

\* the call threw
Thrown == [kind |-> "throw", match |-> NoMatch, bool |-> FALSE]

\* a query method without the test for null: makeMatch reads pcreMatch[0] of
\* null and the call throws
ReturnedUnchecked(m, namedGroups) ==
  IF m = NoMatches THEN Thrown ELSE MatchResult(makeMatch(m, namedGroups))

\* if (!m) return null; return makeMatch(m, namedGroups)
Returned(m, namedGroups) ==
  IF m = NoMatches THEN Null ELSE MatchResult(makeMatch(m, namedGroups))

NoPattern ==
  [state |-> "none", fullmatchRegex |-> NoRegex, partialRegex |-> NoRegex,
   anchoredRegex |-> NoRegex, namedGroups |-> <<>>]

Rejected == [NoPattern EXCEPT !.state = "rejected"]

\* compile that builds the Pattern as soon as the fullmatch program is there
PatternOfFirst(fullmatchRegex, partialRegex, anchoredRegex) ==
  IF ~fullmatchRegex.ok
  THEN [NoPattern EXCEPT !.state = "rejected"]
  ELSE [state |-> "compiled", fullmatchRegex |-> fullmatchRegex,
        partialRegex |-> partialRegex, anchoredRegex |-> anchoredRegex,
        namedGroups |-> getNamedGroups(fullmatchRegex)]

\* the Pattern built from the three PCRERegex, Rejected when the
\* compilation of one of them threw
PatternOf(fullmatchRegex, partialRegex, anchoredRegex) ==
  IF ~fullmatchRegex.ok \/ ~partialRegex.ok \/ ~anchoredRegex.ok
  THEN Rejected
  ELSE [state |-> "compiled", fullmatchRegex |-> fullmatchRegex,
        partialRegex |-> partialRegex, anchoredRegex |-> anchoredRegex,
        namedGroups |-> getNamedGroups(fullmatchRegex)]

compile(pattern) ==
  PatternOf(compileRegex(pattern), compileRegexPartial(pattern),
            compileRegexAnchored(pattern))

\* compile(pattern, flags): the flags are not read ("TODO: support flags")
compileWithFlags(pattern, flags) == compile(pattern)

fullmatch(pat, text) ==
  Returned(exec(pat.fullmatchRegex, text, 0), pat.namedGroups)

\* match run with the fullmatch program
matchWhole(pat, text) ==
  Returned(exec(pat.fullmatchRegex, text, 0), pat.namedGroups)

match(pat, text) ==
  Returned(exec(pat.anchoredRegex, text, 0), pat.namedGroups)

\* search run with the fullmatch program
searchWhole(pat, text) ==
  Returned(exec(pat.fullmatchRegex, text, 0), pat.namedGroups)

search(pat, text) ==
  Returned(exec(pat.partialRegex, text, 0), pat.namedGroups)

\* test run with the partial program ("the text holds a match")
testPartial(pat, text) == BoolResult(regexTest(pat.partialRegex, text, 0))

test(pat, text) == BoolResult(regexTest(pat.fullmatchRegex, text, 0))

(***************************************************************************)
(* The inputs of the model.                                                *)
(***************************************************************************)
\* the pieces patterns are put together from
Parts ==
  {<<"a">>, <<"b">>, <<"|">>, <<"?">>, <<"*">>, <<"+">>, <<"^">>, <<"$">>,
   <<"\\", "$">>,
   <<"(", "?", "P", "<", "n", ">", "a", ")">>,
   <<"(", "?", "P", "<", "m", ">", "b", "*", ")">>,
   <<"(", "b", ")">>,
   <<"(", "?", ":", "a", ")">>}

Patterns == {Flatten(parts) : parts \in SeqsUpTo(Parts, MaxParts)}

TextAlphabet == {"a", "b", "$", Newline}

Texts == SeqsUpTo(TextAlphabet, MaxTextLen)

\* the keys Match.group is called with
Keys ==
  {IntKey(0 - 1), IntKey(0), IntKey(1), IntKey(2), IntKey(3), IntKey(999),
   NumberKey("fraction"), NumberKey("NaN"), NumberKey("Infinity"),
   StrKey(<<>>), StrKey(<<"n">>), StrKey(<<"m">>), StrKey(<<"x">>),
   StrKey(<<"1", "2", "3">>), StrKey(<<"c", "o", "n", "s", "t", "r", "u", "c", "t", "o", "r">>),
   OtherKey("null"), OtherKey("undefined"), OtherKey("object"),
   OtherKey("array")}

NoKey == OtherKey("none")

(***************************************************************************)
(* The query methods called with any JavaScript value.  The methods hand   *)
(* the value to PCRERegex.exec / test as it is; the engine takes a string  *)
(* and throws for a value of another type.                                 *)
(***************************************************************************)
JSNull == [kind |-> "null", s |-> <<>>]

Num(digits) == [kind |-> "number", s |-> digits]

Obj == [kind |-> "object", s |-> <<>>]

Arr == [kind |-> "array", s |-> <<>>]

\* String(v)
StringOf(v) ==
  CASE v.kind = "string" -> v.s
    [] v.kind = "number" -> v.s
    [] v.kind = "null" -> <<"n", "u", "l", "l">>
    [] v.kind = "undefined" -> <<"u", "n", "d", "e", "f", "i", "n", "e", "d">>
    [] v.kind = "object" ->
         <<"[", "o", "b", "j", "e", "c", "t", " ", "O", "b", "j", "e", "c", "t", "]">>
    [] v.kind = "array" -> <<>>

\* does the engine throw for the subject v
SubjectError(v) == v.kind # "string"

Methods == {"fullmatch", "match", "search", "test"}

\* pattern[method](text) for a string text
CallText(method, pat, s) ==
  CASE method = "fullmatch" -> fullmatch(pat, s)
    [] method = "match" -> match(pat, s)
    [] method = "search" -> search(pat, s)
    [] method = "test" -> test(pat, s)

\* the query methods with the subject turned into a string first
\* (exec(String(text)))
CallCoerced(method, pat, v) == CallText(method, pat, StringOf(v))

\* pattern[method](v): the methods neither test nor convert v and catch
\* nothing, so what the engine throws reaches the caller
Call(method, pat, v) ==
  IF SubjectError(v) THEN Thrown ELSE CallText(method, pat, v.s)

(***************************************************************************)
(* compile.ts: getPCREInstance and the one PCRE instance all compilations  *)
(* share.  A call of regex.compile runs up to an await and goes on when    *)
(* what it awaits is settled; other calls run in between.                  *)
(***************************************************************************)
\* the calls of regex.compile that run side by side
NumCallers == 2

Callers == 1..NumCallers

\* a call of regex.compile: where it stands (idle, await: at await
\* _initPromise, ready: getPCREInstance has returned, done), the pattern
\* string, which of the three compilations it is at, the promise it
\* awaits, the PCRE getPCREInstance returned to it (0 for null), the
\* PCRERegex it has so far, and the Pattern it returned
NoCall ==
  [pc |-> "idle", src |-> <<>>, stage |-> 0, awaits |-> 0, pcre |-> 0,
   fullmatchRegex |-> NoRegex, partialRegex |-> NoRegex, out |-> NoPattern]

\* getPCREInstance that assigns _pcreInstance before pcre.init() is awaited
getPCREInstanceEarly(instance, promise, fresh) ==
  IF instance # 0
  THEN [instance |-> instance, promise |-> promise, pc |-> "ready",
        made |-> FALSE]
  ELSE IF promise = 0
       THEN [instance |-> fresh, promise |-> fresh, pc |-> "await",
             made |-> TRUE]
       ELSE [instance |-> instance, promise |-> promise, pc |-> "await",
             made |-> FALSE]

\* getPCREInstance without the test of _initPromise: every call that finds
\* no instance makes a PCRE and starts its init
getPCREInstanceUnshared(instance, promise, fresh) ==
  IF instance # 0
  THEN [instance |-> instance, promise |-> promise, pc |-> "ready",
        made |-> FALSE]
  ELSE [instance |-> 0, promise |-> fresh, pc |-> "await", made |-> TRUE]

\* getPCREInstance without the await: it returns _pcreInstance as it is
getPCREInstanceNoWait(instance, promise, fresh) ==
  IF instance # 0 \/ promise # 0
  THEN [instance |-> instance, promise |-> promise, pc |-> "ready",
        made |-> FALSE]
  ELSE [instance |-> 0, promise |-> fresh, pc |-> "ready", made |-> TRUE]

\* getPCREInstance up to its await or its return, fresh being the PCRE
\* that new PCRE() would make: _pcreInstance and _initPromise as it leaves
\* them (0 for null, else the PCRE and the promise of its init), where
\* the call stands, and whether a PCRE was made and its init started.
\* _pcreInstance is assigned when init is over
getPCREInstance(instance, promise, fresh) ==
  IF instance # 0
  THEN [instance |-> instance, promise |-> promise, pc |-> "ready",
        made |-> FALSE]
  ELSE IF promise = 0
       THEN [instance |-> 0, promise |-> fresh, pc |-> "await",
             made |-> TRUE]
       ELSE [instance |-> instance, promise |-> promise, pc |-> "await",
             made |-> FALSE]

\* what pcre.constants and pcre.compile give on the instance: they throw
\* on a PCRE whose init is not over
Using(instance, regex) == IF instance = "initialized" THEN regex ELSE NoRegex

\* the three compilations in the order compile awaits them
Stage(k, p) ==
  IF k = 1 THEN compileRegex(p)
  ELSE IF k = 2 THEN compileRegexPartial(p)
  ELSE compileRegexAnchored(p)

(***************************************************************************)
(* The state: the Pattern the caller holds, the last query call with what  *)
(* it returned, the Match the caller kept from a call, and the last group  *)
(* lookup on that Match.                                                   *)
(***************************************************************************)
VARIABLES source, pattern, op, text, result, held, key, value

\* literal: the string the caller gave to regex.escape (Undefined before the
\* call); subject: the value a query method was called with, when the
\* caller passes values that are no strings
VARIABLES literal, subject

\* the module state of compile.ts, _pcreInstance and _initPromise, the
\* PCRE instances made so far, each with how its init() stands (pending,
\* resolved, rejected), and the calls of regex.compile that run side by
\* side, each with its position.  The k-th PCRE and the promise of its
\* init are both written k; 0 is null
VARIABLES pcreInstance, initPromise, inits, calls

\* the flags argument of the compile that made the Pattern (Undefined when
\* compile was called without)
VARIABLES flags

engine == <<pcreInstance, initPromise, inits, calls>>

\* what a call on a Pattern or a Match leaves alone
apart == <<literal, subject, pcreInstance, initPromise, inits, calls, flags>>

vars ==
  <<source, pattern, op, text, result, held, key, value, literal, subject,
    pcreInstance, initPromise, inits, calls, flags>>

InitApart ==
  /\ literal = Undefined
  /\ subject = Undefined
  /\ pcreInstance = 0
  /\ initPromise = 0
  /\ inits = <<>>
  /\ flags = Undefined
  /\ calls = [c \in Callers |-> NoCall]

Init ==
  /\ source = <<>>
  /\ pattern = NoPattern
  /\ op = "none"
  /\ text = <<>>
  /\ result = NoResult
  /\ held = NoMatch
  /\ key = NoKey
  /\ value = Undefined
  /\ InitApart

\* pattern = await regex.compile(p)
Compile(p) ==
  /\ pattern.state = "none"
  /\ source' = p
  /\ pattern' = compile(p)
  /\ UNCHANGED <<op, text, result, held, key, value>>
  /\ UNCHANGED apart

Idle == pattern.state = "compiled" /\ op = "none" /\ held = NoMatch

\* result = pattern.fullmatch(s)
Fullmatch(s) ==
  /\ Idle
  /\ op' = "fullmatch"
  /\ text' = s
  /\ result' = fullmatch(pattern, s)
  /\ UNCHANGED <<source, pattern, held, key, value>>
  /\ UNCHANGED apart

\* result = pattern.match(s)
MatchCall(s) ==
  /\ Idle
  /\ op' = "match"
  /\ text' = s
  /\ result' = match(pattern, s)
  /\ UNCHANGED <<source, pattern, held, key, value>>
  /\ UNCHANGED apart

\* result = pattern.search(s)
Search(s) ==
  /\ Idle
  /\ op' = "search"
  /\ text' = s
  /\ result' = search(pattern, s)
  /\ UNCHANGED <<source, pattern, held, key, value>>
  /\ UNCHANGED apart

\* result = pattern.test(s)
Test(s) ==
  /\ Idle
  /\ op' = "test"
  /\ text' = s
  /\ result' = test(pattern, s)
  /\ UNCHANGED <<source, pattern, held, key, value>>
  /\ UNCHANGED apart

\* the caller keeps the Match the call returned
Keep ==
  /\ result.kind = "match"
  /\ held' = result.match
  /\ op' = "none"
  /\ text' = <<>>
  /\ result' = NoResult
  /\ UNCHANGED <<source, pattern, key, value>>
  /\ UNCHANGED apart

\* value = held.group(k)
Group(k) ==
  /\ held # NoMatch
  /\ key' = k
  /\ value' = group(held, k)
  /\ UNCHANGED <<source, pattern, op, text, result, held>>
  /\ UNCHANGED apart

\* the caller drops what the call returned, or the Match it kept
Release ==
  /\ op # "none" \/ held # NoMatch
  /\ op' = "none"
  /\ text' = <<>>
  /\ result' = NoResult
  /\ held' = NoMatch
  /\ key' = NoKey
  /\ value' = Undefined
  /\ UNCHANGED <<source, pattern>>
  /\ UNCHANGED apart

Next ==
  \/ \E p \in Patterns : Compile(p)
  \/ \E s \in Texts : Fullmatch(s)
  \/ \E s \in Texts : MatchCall(s)
  \/ \E s \in Texts : Search(s)
  \/ \E s \in Texts : Test(s)
  \/ Keep
  \/ \E k \in Keys : Group(k)
  \/ Release

Spec == Init /\ [][Next]_vars

(***************************************************************************)
(* regex.escape and the Pattern compiled from what it returns: the caller  *)
(* escapes a string, compiles the result and asks fullmatch and test about *)
(* the string and about strings that differ from it in one place.          *)
(***************************************************************************)
\* a letter, a digit, the underscore, the hyphen, the control characters
\* newline, tab and carriage return, a letter outside ASCII (U+00E9)
PlainChars == {"a", "7", "_", "-", Newline, "\t", "\r", "U+00E9"}

LiteralAlphabet == EscapedChars \cup PlainChars

Literals == SeqsUpTo(LiteralAlphabet, MaxLiteralLen)

\* t without its i-th character
Without(t, i) == SubSeq(t, 1, i - 1) \o SubSeq(t, i + 1, Len(t))

\* t and the strings one character away from it: a character more at
\* either end, a character less
Near(t) ==
  {t, t \o <<"x">>, <<"x">> \o t, t \o <<Newline>>}
    \cup {Without(t, i) : i \in 1..Len(t)}

\* source = regex.escape(t)
Escape(t) ==
  /\ literal = Undefined
  /\ pattern.state = "none"
  /\ literal' = Str(t)
  /\ source' = escapeRegex(t)
  /\ UNCHANGED <<pattern, op, text, result, held, key, value, subject>>
  /\ UNCHANGED <<engine, flags>>

\* pattern = await regex.compile(source)
CompileEscaped == literal # Undefined /\ Compile(source)

EscapeNext ==
  \/ \E t \in Literals : Escape(t)
  \/ CompileEscaped
  \/ \E s \in Near(literal.s) : Fullmatch(s)
  \/ \E s \in Near(literal.s) : Test(s)
  \/ Release

EscapeSpec == Init /\ [][EscapeNext]_vars

(***************************************************************************)
(* compile on its own: the caller compiles patterns that are well formed   *)
(* and patterns that are not, and calls the query methods of what it got.  *)
(***************************************************************************)
\* the longest pattern given to compile here, in parts
MaxSyntaxParts == 2

\* (?P<nm>t)
NamedGroup(nm) == PyNamedOpen \o nm \o <<">", "t", ")">>

\* group names that are no identifiers: empty, digits only, a digit first,
\* a hyphen or a space inside
BadNames ==
  {<<>>, <<"1", "2", "3">>, <<"1", "a">>, <<"n", "a", "-", "m", "e">>, <<"n", "a", " ", "m", "e">>}

GoodNames ==
  {<<"g", "r", "o", "u", "p", "_", "n", "a", "m", "e">>,
   <<"g", "r", "o", "u", "p", "1", "2", "3">>,
   <<"C", "a", "m", "e", "l", "C", "a", "s", "e">>}

SyntaxParts ==
  {<<"(", "?", "P", "<", "a", ">", "x", ")">>,
   <<"(", "?", "P", "<", "a", ">", "y", ")">>,
   <<"|", "(", "?", "P", "<", "a", ">", "y", ")">>,
   <<"(", "?", "P", "<", "b", ">", "y", ")">>}
    \cup {NamedGroup(nm) : nm \in BadNames \cup GoodNames}
    \cup {<<"(">>,
          <<")">>,
          <<"[">>,
          <<"]">>,
          <<"*">>,
          <<"+">>,
          <<"?">>,
          <<"a">>,
          <<"|">>,
          <<"[", "z", "-", "a", "]">>,
          <<"[", "a", "-", "z", "]">>,
          <<"(", "?", "P", "n", "a", "m", "e", ">", "t", ")">>,
          <<"(", "?", "P", "<", "n", "a", "m", "e">>,
          <<"(", "?", ":", "a", ")">>,
          <<"\\">>}

SyntaxPatterns == {Flatten(parts) : parts \in SeqsUpTo(SyntaxParts, MaxSyntaxParts)}

\* the texts the query methods are tried on
ProbeTexts == {<<>>, <<"a">>, <<"x", "y">>}

CompileNext ==
  \/ \E p \in SyntaxPatterns : Compile(p)
  \/ \E s \in ProbeTexts : Fullmatch(s)
  \/ \E s \in ProbeTexts : MatchCall(s)
  \/ \E s \in ProbeTexts : Search(s)
  \/ \E s \in ProbeTexts : Test(s)
  \/ Release

CompileSpec == Init /\ [][CompileNext]_vars

(***************************************************************************)
(* The query methods at their boundary: the caller compiles a pattern and  *)
(* calls the methods with strings and with values that are no strings.     *)
(***************************************************************************)
StringSubjects ==
  {Str(<<>>), Str(<<"a">>), Str(<<"b", "b">>), Str(<<"1", "2", "3">>),
   Str(<<"$", Newline>>)}

OtherSubjects == {JSNull, Undefined, Num(<<"1", "2", "3">>), Obj, Arr}

\* result = pattern[method](v)
CallWith(method, v) ==
  /\ Idle
  /\ op' = method
  /\ subject' = v
  /\ text' = IF v.kind = "string" THEN v.s ELSE <<>>
  /\ result' = Call(method, pattern, v)
  /\ UNCHANGED <<source, pattern, held, key, value, literal>>
  /\ UNCHANGED <<engine, flags>>

\* the caller drops what the call returned or threw
Forget ==
  /\ op # "none"
  /\ op' = "none"
  /\ text' = <<>>
  /\ result' = NoResult
  /\ subject' = Undefined
  /\ UNCHANGED <<source, pattern, held, key, value, literal>>
  /\ UNCHANGED <<engine, flags>>

BoundaryNext ==
  \/ \E p \in Patterns : Compile(p)
  \/ \E method \in Methods, v \in StringSubjects : CallWith(method, v)
  \/ \E method \in Methods, v \in OtherSubjects : CallWith(method, v)
  \/ Forget

BoundarySpec == Init /\ [][BoundaryNext]_vars

(***************************************************************************)
(* Compiling side by side: several calls of regex.compile, of the same     *)
(* pattern string or of different ones, interleaved at their awaits.       *)
(***************************************************************************)
SamePatterns ==
  {<<"a">>,
   <<"(", "?", "P", "<", "n", ">", "a", ")", "(", "b", ")", "?">>,
   <<"[", "a", "-", "b", "]", "+", "$">>,
   <<"(">>}

SameTexts == {<<>>, <<"a">>, <<"a", "b">>, <<"b", "a">>, <<"x", "a">>, <<"a", Newline>>}

\* what the calls of compile leave alone
front ==
  <<source, pattern, op, text, result, held, key, value, literal, subject,
    flags>>

\* how the PCRE k stands: null, created (init not over or failed),
\* initialized
InstanceState(k) ==
  IF k = 0 THEN "null"
  ELSE IF inits[k] = "resolved" THEN "initialized"
  ELSE "created"

\* call c, now rec, enters getPCREInstance
Enter(c, rec) ==
  LET g == getPCREInstance(pcreInstance, initPromise, Len(inits) + 1)
  IN  /\ pcreInstance' = g.instance
      /\ initPromise' = g.promise
      /\ inits' = IF g.made THEN Append(inits, "pending") ELSE inits
      /\ calls' = [calls EXCEPT ![c] =
                     [rec EXCEPT !.pc = g.pc,
                                 !.awaits = IF g.pc = "await" THEN g.promise
                                            ELSE rec.awaits,
                                 !.pcre = IF g.pc = "ready" THEN g.instance
                                          ELSE 0]]

\* the call has thrown
Throw(c) ==
  /\ calls' = [calls EXCEPT ![c] = [@ EXCEPT !.pc = "done", !.out = Rejected]]
  /\ UNCHANGED <<pcreInstance, initPromise, inits>>

\* regex.compile(p) is called: compile calls compileRegex, which calls
\* getPCREInstance
Start(c, p) ==
  /\ calls[c].pc = "idle"
  /\ Enter(c, [NoCall EXCEPT !.src = p, !.stage = 1])
  /\ UNCHANGED front

\* pcre.init() of the PCRE k is over: _pcreInstance = pcre and the promise
\* is resolved
InitOver(k) ==
  /\ k \in DOMAIN inits
  /\ inits[k] = "pending"
  /\ inits' = [inits EXCEPT ![k] = "resolved"]
  /\ pcreInstance' = k
  /\ UNCHANGED <<initPromise, calls>>
  /\ UNCHANGED front

\* pcre.init() that forgets the promise when it throws, so that the next
\* call tries again
InitFailsForgotten(k) ==
  /\ k \in DOMAIN inits
  /\ inits[k] = "pending"
  /\ inits' = [inits EXCEPT ![k] = "rejected"]
  /\ initPromise' = 0
  /\ UNCHANGED <<pcreInstance, calls>>
  /\ UNCHANGED front

\* pcre.init() of the PCRE k throws: the promise is rejected and stays in
\* _initPromise
InitFails(k) ==
  /\ k \in DOMAIN inits
  /\ inits[k] = "pending"
  /\ inits' = [inits EXCEPT ![k] = "rejected"]
  /\ UNCHANGED <<pcreInstance, initPromise, calls>>
  /\ UNCHANGED front

\* await _initPromise is over; return _pcreInstance, or the rejection is
\* thrown on to the caller of compile
Resume(c) ==
  /\ calls[c].pc = "await"
  /\ inits[calls[c].awaits] # "pending"
  /\ IF inits[calls[c].awaits] = "resolved"
     THEN /\ calls' = [calls EXCEPT ![c] =
                         [@ EXCEPT !.pc = "ready", !.pcre = pcreInstance]]
          /\ UNCHANGED <<pcreInstance, initPromise, inits>>
     ELSE Throw(c)
  /\ UNCHANGED front

\* the part of compile after await getPCREInstance(): the compilation the
\* call is at, on the PCRE it was given, then the next one up to its
\* await, or the Pattern
Run(c) ==
  /\ calls[c].pc = "ready"
  /\ LET call  == calls[c]
         regex == Using(InstanceState(call.pcre),
                        Stage(call.stage, call.src))
     IN  IF ~regex.ok THEN Throw(c)
         ELSE IF call.stage = 1
         THEN Enter(c, [call EXCEPT !.fullmatchRegex = regex, !.stage = 2])
         ELSE IF call.stage = 2
         THEN Enter(c, [call EXCEPT !.partialRegex = regex, !.stage = 3])
         ELSE /\ calls' =
                   [calls EXCEPT ![c] =
                      [call EXCEPT
                         !.pc = "done",
                         !.out = PatternOf(call.fullmatchRegex,
                                           call.partialRegex, regex)]]
              /\ UNCHANGED <<pcreInstance, initPromise, inits>>
  /\ UNCHANGED front

SameNext ==
  \/ \E c \in Callers, p \in SamePatterns : Start(c, p)
  \/ \E k \in 1..(3 * NumCallers) : InitOver(k)
  \/ \E k \in 1..(3 * NumCallers) : InitFails(k)
  \/ \E c \in Callers : Resume(c)
  \/ \E c \in Callers : Run(c)

SameSpec == Init /\ [][SameNext]_vars

\* the same with the event loop going on: a call whose await is settled
\* is resumed.  Whether pcre.init() ever settles is left open
SameLiveSpec == SameSpec /\ \A c \in Callers : WF_vars(Resume(c))

(***************************************************************************)
(* One Pattern called again and again: the caller keeps a Match of an      *)
(* earlier call and goes on calling the query methods of the Pattern.      *)
(***************************************************************************)
\* a query method that gives the Match of the call before again
CallAgainCached(method, s) ==
  /\ pattern.state = "compiled"
  /\ op = "none"
  /\ op' = method
  /\ text' = s
  /\ result' = IF held # NoMatch /\ method # "test"
               THEN MatchResult(held)
               ELSE CallText(method, pattern, s)
  /\ UNCHANGED <<source, pattern, held, key, value>>
  /\ UNCHANGED apart

\* a query method whose Match is written over the Match the caller keeps
CallAgainShared(method, s) ==
  /\ pattern.state = "compiled"
  /\ op = "none"
  /\ op' = method
  /\ text' = s
  /\ result' = CallText(method, pattern, s)
  /\ held' = IF held # NoMatch /\ result'.kind = "match"
             THEN result'.match
             ELSE held
  /\ UNCHANGED <<source, pattern, key, value>>
  /\ UNCHANGED apart

\* result = pattern[method](s), whatever the caller keeps of earlier calls:
\* the method reads fullmatchRegex, partialRegex, anchoredRegex and
\* namedGroups and assigns none of them
CallAgain(method, s) ==
  /\ pattern.state = "compiled"
  /\ op = "none"
  /\ op' = method
  /\ text' = s
  /\ result' = CallText(method, pattern, s)
  /\ UNCHANGED <<source, pattern, held, key, value>>
  /\ UNCHANGED apart

AgainNext ==
  \/ \E p \in SamePatterns : Compile(p)
  \/ \E method \in Methods, s \in SameTexts : CallAgain(method, s)
  \/ Keep
  \/ \E k \in Keys : Group(k)
  \/ Forget
  \/ Release

AgainSpec == Init /\ [][AgainNext]_vars

(***************************************************************************)
(* The dialect: compile with and without flags, greedy and lazy            *)
(* quantifiers, on texts of lower-case and upper-case letters.             *)
(***************************************************************************)
DialectPatterns ==
  {<<"a", "b">>,
   <<"(", "?", "P", "<", "w", ">", "a", "b", ")">>,
   <<"a", "+">>,
   <<"a", "+", "?">>,
   <<"(", "?", "P", "<", "m", ">", "a", "+", ")">>,
   <<"(", "?", "P", "<", "m", ">", "a", "+", "?", ")">>,
   <<"(", "a", "+", ")", "+", "b">>}

DialectTexts ==
  {<<"a", "b">>, <<"A", "B">>, <<"A", "b">>, <<"a", "a", "b">>,
   <<"a", "a", "a", "b">>, <<"a", "a", "a">>, <<"a", "a", "a", "a">>,
   <<"b", "a">>, <<"a", "A">>}

\* pattern = await regex.compile(p, f)
CompileFlags(p, f) ==
  /\ pattern.state = "none"
  /\ source' = p
  /\ flags' = f
  /\ pattern' = compileWithFlags(p, f)
  /\ UNCHANGED <<op, text, result, held, key, value, literal, subject>>
  /\ UNCHANGED engine

DialectNext ==
  \/ \E p \in DialectPatterns, f \in {Undefined, Str(<<"i">>)} :
       CompileFlags(p, f)
  \/ \E s \in DialectTexts : Fullmatch(s)
  \/ \E s \in DialectTexts : MatchCall(s)
  \/ \E s \in DialectTexts : Test(s)
  \/ Release

DialectSpec == Init /\ [][DialectNext]_vars

(***************************************************************************)
(* What the claims speak of.                                               *)
(***************************************************************************)
IsPrefix(u, s) == Len(u) <= Len(s) /\ SubSeq(s, 1, Len(u)) = u

\* u occurs in s as a contiguous piece
IsPiece(u, s) == \E i \in 1..(Len(s) + 1) : SubAt(s, i, u)

Min(S) == CHOOSE x \in S : \A y \in S : x <= y

\* is the character at index i of p escaped by a backslash
RECURSIVE IsEscaped(_, _)
IsEscaped(p, i) == i > 1 /\ p[i - 1] = "\\" /\ ~IsEscaped(p, i - 1)

\* p holds no ^ or $ anchor (an escaped one is a literal)
AnchorFree(p) ==
  \A i \in 1..Len(p) : p[i] \in {"^", "$"} => IsEscaped(p, i)

\* the capturing groups of a pattern as written by the caller, in the order
\* of their opening parentheses: the name of a (?P<name> group, <<>> for a
\* plain group; (?: groups are left out
RECURSIVE OpeningsFrom(_, _)
OpeningsFrom(p, i) ==
  IF i > Len(p) THEN <<>>
  ELSE IF p[i] # "(" \/ IsEscaped(p, i) THEN OpeningsFrom(p, i + 1)
  ELSE IF SubAt(p, i, PyNamedOpen)
  THEN <<SubSeq(p, i + 4, FirstClose(p, i + 4) - 1)>> \o OpeningsFrom(p, i + 1)
  ELSE IF SubAt(p, i, <<"(", "?">>) THEN OpeningsFrom(p, i + 1)
  ELSE << <<>> >> \o OpeningsFrom(p, i + 1)

Openings(p) == OpeningsFrom(p, 1)

\* did the call in the state return a Match
Matched == result.kind = "match"

\* C1: for every compiled pattern and text, a Match from fullmatch implies a
\* Match from match, and a Match from match implies a Match from search.
C1_FullmatchImpliesMatchImpliesSearch ==
  /\ (op = "fullmatch" /\ Matched) => match(pattern, text).kind = "match"
  /\ (op = "match" /\ Matched) => search(pattern, text).kind = "match"

\* fullmatch returned a Match for a text of two characters or more
C1_Witness == op = "fullmatch" /\ Matched /\ Len(text) >= 2

\* C2: a Match returned by fullmatch covers the whole input: its fullMatch
\* and its group(0) are the text the call was given.
C2_FullmatchCoversInput ==
  (op = "fullmatch" /\ Matched) =>
    /\ result.match.fullMatch = text
    /\ group(result.match, IntKey(0)) = Str(text)

\* C3: test(S) is true exactly when fullmatch(S) is not null.
C3_TestIsFullmatch ==
  /\ op = "test" => (result.bool <=> fullmatch(pattern, text).kind = "match")
  /\ op = "fullmatch" => (test(pattern, text).bool <=> Matched)

\* test answered false for a text in which search finds a match
C3_Witness ==
  op = "test" /\ ~result.bool /\ search(pattern, text).kind = "match"

\* C4: for an anchor-free pattern P, fullmatch and test answer the same for
\* P, ^P, P$ and ^P$.
Variants(p) == {<<"^">> \o p, p \o <<"$">>, <<"^">> \o p \o <<"$">>}

C4_AnchorsInterchangeable ==
  (AnchorFree(source) /\ op \in {"fullmatch", "test"}) =>
    \A q \in Variants(source) :
      /\ compile(q).state = "compiled"
      /\ op = "fullmatch" => fullmatch(compile(q), text) = result
      /\ op = "test" => test(compile(q), text) = result

\* C5: match attempts the pattern at offset 0 only: a Match starts at offset
\* 0 and its fullMatch is a prefix of the text, and match is null exactly
\* when the pattern does not match at offset 0.
C5_MatchAtOffsetZero ==
  op = "match" =>
    /\ Matched <=> ExecAt(pattern.partialRegex, text, 0) # NoMatches
    /\ Matched =>
         /\ result.match.pcreMatch[1].index = 0
         /\ IsPrefix(result.match.fullMatch, text)

\* match returned null for a text in which the pattern matches later
C5_Witness ==
  op = "match" /\ result = Null /\ search(pattern, text).kind = "match"

\* the start offsets at which the pattern matches the text
MatchOffsets ==
  {k \in 0..Len(text) : ExecAt(pattern.anchoredRegex, text, k) # NoMatches}

\* C6: search returns the match at the smallest start offset at which the
\* pattern matches, and null only when it matches at no offset.
C6_SearchLeftmost ==
  op = "search" =>
    /\ result = Null <=> MatchOffsets = {}
    /\ Matched =>
         /\ MatchOffsets # {}
         /\ result.match.pcreMatch[1].index = Min(MatchOffsets)
         /\ result.match.pcreMatch =
              ExecAt(pattern.anchoredRegex, text, Min(MatchOffsets))

\* search found its match at an offset after the start of the text
C6_Witness ==
  op = "search" /\ Matched /\ result.match.pcreMatch[1].index > 0

\* a key that names no group of the Match: a number that is no index of a
\* slot, a string that is no group name of the pattern, any other value
InvalidKey(k) ==
  \/ k.type = "number" /\ (k.special # "" \/ k.n < 0 \/ k.n >= Len(held.pcreMatch))
  \/ k.type = "string" /\ k.s \notin DOMAIN pattern.namedGroups
  \/ k.type \notin {"number", "string"}

\* C7: group(key) returns undefined for every invalid key.
C7_InvalidKeyUndefined ==
  (held # NoMatch /\ key # NoKey /\ InvalidKey(key)) => value = Undefined

C8_WitnessEmpty ==
  Matched /\ \E nm \in DOMAIN result.match.groups : result.match.groups[nm] = Str(<<>>)

\* C9: for every named group that takes part in a match, group(name) is
\* groups[name].
C9_GroupNameRoundTrip ==
  (held # NoMatch /\ key.type = "string" /\ key.s \in DOMAIN held.groups) =>
    value = held.groups[key.s]

\* group was called with the name of a group that took part
C9_Witness ==
  held # NoMatch /\ key.type = "string" /\ key.s \in DOMAIN held.groups

\* an integer key from 1 on
IsGroupIndex(k) == k.type = "number" /\ k.special = "" /\ k.n >= 1

\* C10: group(0) is the whole matched text, equal to fullMatch; group(i) for
\* i from 1 on is the i-th capturing group by opening parenthesis, named
\* and plain groups counted together and (?: groups not counted.
C10_NumericGroups ==
  held # NoMatch =>
    /\ key = IntKey(0) => value = Str(held.fullMatch)
    /\ IsGroupIndex(key) =>
         LET opens == Openings(source)
         IN  IF key.n > Len(opens) THEN value = Undefined
             ELSE /\ value = Undefined \/
                       (value.kind = "string" /\ IsPiece(value.s, held.fullMatch))
                  /\ opens[key.n] # <<>> =>
                       value = IF opens[key.n] \in DOMAIN held.groups
                               THEN held.groups[opens[key.n]]
                               ELSE Undefined

\* group(1) is the text of the plain group that follows a (?: group
C10_Witness ==
  /\ held # NoMatch
  /\ \E i \in 1..Len(source) : SubAt(source, i, <<"(", "?", ":">>)
  /\ key = IntKey(1)
  /\ value = Str(<<"b">>)


\* the characters the contract of escape lists
ListedChars ==
  {".", "^", "$", "*", "+", "?", "{", "}", "[", "]", "(", ")", "|", "\\", " "}

\* how many of the characters of t before index i are listed
ListedBefore(t, i) == Cardinality({j \in 1..(i - 1) : t[j] \in ListedChars})

Ordinary(t) == \A i \in 1..Len(t) : t[i] \notin ListedChars

\* C12: for every string T of ordinary characters, the pattern compiled
\* from escape(T) fullmatches T and does not fullmatch T + "x".
C12_LiteralRoundTrip ==
  (literal # Undefined /\ Ordinary(literal.s)) =>
    /\ pattern.state # "none" => pattern.state = "compiled"
    /\ (op = "fullmatch" /\ text = literal.s) =>
         Matched /\ result.match.fullMatch = literal.s
    /\ (op = "fullmatch" /\ text = literal.s \o <<"x">>) => result = Null

\* fullmatch accepted a two-character ordinary string, a control character in it
C12_Witness ==
  /\ literal # Undefined
  /\ Ordinary(literal.s)
  /\ Len(literal.s) = 2
  /\ literal.s[2] = Newline
  /\ op = "fullmatch"
  /\ text = literal.s
  /\ Matched

\* fullmatch refused T + "x" for an ordinary T
C12_WitnessLonger ==
  /\ literal # Undefined
  /\ Ordinary(literal.s)
  /\ op = "fullmatch"
  /\ text = literal.s \o <<"x">>
  /\ result = Null

\* C13: for every text T, compile(escape(T)) succeeds and the pattern's
\* fullmatch and test accept T and reject every text that differs from T.
C13_EscapedIsLiteral ==
  literal # Undefined =>
    /\ pattern.state # "none" => pattern.state = "compiled"
    /\ op = "fullmatch" => (Matched <=> text = literal.s)
    /\ op = "test" => (result.bool <=> text = literal.s)

\* no character of p is quoted by a backslash or sits in a character class
Plain(p) == \A i \in 1..Len(p) : p[i] \notin {"[", "\\"}

\* the names written in the (?P<name> introducers of p
NamedOpenings(p) ==
  {SubSeq(p, i + 4, FirstClose(p, i + 4) - 1) :
     i \in {k \in 1..Len(p) : SubAt(p, k, PyNamedOpen) /\ FirstClose(p, k + 4) > 0}}

\* two capturing groups of p are written with the same name
DuplicateName(p) ==
  \E i, j \in 1..Len(Openings(p)) :
    i < j /\ Openings(p)[i] # <<>> /\ Openings(p)[i] = Openings(p)[j]

IsIdentifier(nm) ==
  /\ nm # <<>>
  /\ nm[1] \in Letters \cup {"_"}
  /\ \A k \in 1..Len(nm) : nm[k] \in Letters \cup Digits \cup {"_"}

\* C15: compile fails for every pattern with a named group whose name is no
\* identifier, and succeeds for a group whose name is one.
C15_GroupNameIsIdentifier ==
  pattern.state # "none" =>
    /\ (Plain(source) /\ \E nm \in NamedOpenings(source) : ~IsIdentifier(nm)) =>
         pattern.state = "rejected"
    /\ (\E nm \in NamedOpenings(source) :
          IsIdentifier(nm) /\ source = NamedGroup(nm)) =>
         pattern.state = "compiled"

\* compile rejected the name 1a, a digit followed by a letter
C15_Witness ==
  pattern.state = "rejected" /\ source = NamedGroup(<<"1", "a">>)

\* compile accepted the name group_name
C15_WitnessGood ==
  /\ pattern.state = "compiled"
  /\ source = NamedGroup(<<"g", "r", "o", "u", "p", "_", "n", "a", "m", "e">>)

\* the depth of the parentheses of p after its first n characters, -1 once
\* a ")" closed nothing
DepthAfter(d, c) ==
  IF d < 0 THEN 0 - 1
  ELSE IF c = "(" THEN d + 1
  ELSE IF c = ")" THEN d - 1
  ELSE d

RECURSIVE Depth(_, _)
Depth(p, n) == IF n = 0 THEN 0 ELSE DepthAfter(Depth(p, n - 1), p[n])

\* the kinds of malformed pattern: unbalanced "(" or "[", a quantifier with
\* nothing before it to repeat, a class range out of order, a (?P that no
\* "<" follows, a (?P<name that no ">" closes, an empty group name
Malformed(p) ==
  \/ Plain(p) /\ Depth(p, Len(p)) # 0
  \/ \E i \in 1..Len(p) : p[i] = "[" /\ \A j \in (i + 1)..Len(p) : p[j] # "]"
  \/ Plain(p) /\ \E i \in 1..Len(p) :
       \/ p[i] \in {"*", "+", "?"} /\ (i = 1 \/ p[i - 1] = "|")
       \/ p[i] \in {"*", "+"} /\ i > 1 /\ p[i - 1] = "("
  \/ \E i \in 1..Len(p) :
       /\ SubAt(p, i, <<"[", "z", "-", "a", "]">>)
       /\ \A j \in 1..(i - 1) : p[j] \notin {"[", "\\"}
  \/ Plain(p) /\ \E i \in 1..Len(p) :
       SubAt(p, i, <<"(", "?", "P">>) /\ i + 3 <= Len(p) /\ p[i + 3] \in WordChars
  \/ \E i \in 1..Len(p) :
       SubAt(p, i, PyNamedOpen) /\ FirstClose(p, i + 4) = 0
  \/ Plain(p) /\ \E i \in 1..Len(p) : SubAt(p, i, PyNamedOpen \o <<">">>)

\* C16: compile, compileRegex, compileRegexPartial and compileRegexAnchored
\* fail for every malformed pattern.
C16_MalformedRejected ==
  (pattern.state # "none" /\ Malformed(source)) =>
    /\ pattern.state = "rejected"
    /\ ~compileRegex(source).ok
    /\ ~compileRegexPartial(source).ok
    /\ ~compileRegexAnchored(source).ok

\* compile rejected a class whose range runs from z to a
C16_Witness ==
  pattern.state = "rejected" /\ source = <<"[", "z", "-", "a", "]">>

\* C19: compile rejects when validation or one of the three engine
\* compilations fails, and then the caller has no Pattern at all; a Pattern
\* it does return holds the three programs.
C19_CompileAllOrNothing ==
  pattern.state # "none" =>
    /\ pattern.state \in {"compiled", "rejected"}
    /\ pattern.state = "rejected" <=>
         \/ ~validatePattern(source)
         \/ ~compileRegex(source).ok
         \/ ~compileRegexPartial(source).ok
         \/ ~compileRegexAnchored(source).ok
    /\ pattern.state = "rejected" => pattern = Rejected /\ op = "none"
    /\ pattern.state = "compiled" =>
         /\ pattern.fullmatchRegex = compileRegex(source)
         /\ pattern.partialRegex = compileRegexPartial(source)
         /\ pattern.anchoredRegex = compileRegexAnchored(source)
         /\ pattern.fullmatchRegex.ok
         /\ pattern.partialRegex.ok
         /\ pattern.anchoredRegex.ok

\* compile rejected a pattern whose fullmatch program the engine accepted
C19_Witness ==
  /\ pattern = Rejected
  /\ validatePattern(source)
  /\ compileRegex(source).ok
  /\ ~compileRegexPartial(source).ok

\* C17: fullmatch, match, search and test called with a subject that is no
\* string fail with an error: the value is not turned into a string and
\* the call does not answer null or false.
C17_NonStringSubjectThrows ==
  (op # "none" /\ subject.kind # "string") => result = Thrown

\* search was called with a number on a pattern that compiled
C17_Witness ==
  op = "search" /\ subject.kind = "number" /\ result = Thrown

SameBehaviour(p, q) ==
  /\ p.state = q.state
  /\ p.state = "compiled" =>
       \A method \in Methods, s \in SameTexts :
         CallText(method, p, s) = CallText(method, q, s)

C20_SameStringSameBehaviour ==
  \A c \in Callers, d \in Callers :
    (/\ calls[c].pc = "done"
     /\ calls[d].pc = "done"
     /\ calls[c].src = calls[d].src)
      => SameBehaviour(calls[c].out, calls[d].out)

C20_Witness ==
  /\ calls[1].pc = "done"
  /\ calls[2].pc = "done"
  /\ calls[1].src = calls[2].src
  /\ calls[1].out.state = "compiled"
  /\ calls[2].out.state = "compiled"
  /\ search(calls[1].out, <<"x", "a">>).kind = "match"
  /\ fullmatch(calls[2].out, <<"x", "a">>) = Null

QueryCall == op = "none" /\ op' # "none"

C22_MatchOutlivesLaterCalls ==
  [][QueryCall =>
       /\ held' = held
       /\ \A k \in Keys : group(held', k) = group(held, k)
       /\ pattern'.namedGroups = pattern.namedGroups
       /\ key' = key /\ value' = value]_vars

C22_Witness ==
  /\ held # NoMatch
  /\ key = StrKey(<<"n">>)
  /\ value = Str(<<"a">>)
  /\ op = "search"
  /\ result.kind = "match"
  /\ result.match # held

\* the places of p where "(?P<", a name of one character or more and ">"
\* stand
Introducers(p) ==
  {i \in 1..Len(p) : SubAt(p, i, PyNamedOpen) /\ FirstClose(p, i + 4) > i + 4}

\* an introducer stands inside the name of another: (?P<x(?P<a>
Nested(p) ==
  \E i \in Introducers(p), j \in Introducers(p) :
    i < j /\ j < FirstClose(p, i + 4)

\* p without the "P" of each of its introducers
KeptIndex(p, gone, k) ==
  CHOOSE j \in 1..Len(p) :
    j \notin gone /\ Cardinality({m \in 1..j : m \notin gone}) = k

WithoutP(p) ==
  LET gone == {i + 2 : i \in Introducers(p)}
  IN  [k \in 1..(Len(p) - Cardinality(gone)) |-> p[KeptIndex(p, gone, k)]]

Converted(p) ==
  /\ convertNamedGroups(p) = WithoutP(p)
  /\ Introducers(convertNamedGroups(p)) = {}
  /\ Introducers(p) = {} => convertNamedGroups(p) = p
  /\ convertNamedGroups(convertNamedGroups(p)) = convertNamedGroups(p)

\* C26 as stated: convertNamedGroups rewrites every (?P<name> of the
\* pattern to (?<name>, keeps the names and every other character in
\* order, returns a pattern without introducers unchanged, and applied
\* twice gives what it gives applied once
C26_ConvertEveryIntroducer == pattern.state # "none" => Converted(source)

\* C26 amended: the same for every pattern in which no introducer stands
\* inside the name of another
C26_ConvertIntroducersApart ==
  (pattern.state # "none" /\ ~Nested(source)) => Converted(source)

C26_Witness ==
  /\ pattern.state = "compiled"
  /\ Cardinality(Introducers(source)) = 2
  /\ ~Nested(source)
  /\ Len(convertNamedGroups(source)) = Len(source) - 2

\* C27: however the calls of compile and of its three compilations are
\* interleaved, one PCRE at most is made and its init() started, and the
\* calls that were given an instance were all given that one
C27_OneInstance ==
  /\ Len(inits) <= 1
  /\ \A c \in Callers, d \in Callers :
       (calls[c].pcre # 0 /\ calls[d].pcre # 0)
         => calls[c].pcre = calls[d].pcre

\* both calls arrived before init was over, waited for it and were given
\* the instance
C27_Witness ==
  /\ inits = <<"resolved">>
  /\ \A c \in Callers :
       /\ calls[c].stage = 1
       /\ calls[c].pc = "ready"
       /\ calls[c].awaits = 1
       /\ calls[c].pcre = 1

\* C28: a call that goes on to pcre.compile holds an instance, never null,
\* whose init() is over and did not fail
C28_InstanceInitialized ==
  \A c \in Callers :
    calls[c].pc = "ready" =>
      /\ calls[c].pcre # 0
      /\ InstanceState(calls[c].pcre) = "initialized"

\* a call is at its third compilation while another still waits
C28_Witness ==
  /\ calls[1].pc = "await"
  /\ calls[2].pc = "ready"
  /\ calls[2].stage = 3
  /\ calls[2].pcre = 1

\* C29: when init() has failed, the failure stays: no other PCRE is made,
\* _pcreInstance stays null, no call is given an instance or returns a
\* Pattern, and every call that waits, those that come later too, ends
\* with the failure thrown
InitFailed == \E k \in 1..Len(inits) : inits[k] = "rejected"

C29_FailedInitRejectsAll ==
  /\ [](InitFailed =>
          /\ inits = <<"rejected">>
          /\ initPromise = 1
          /\ pcreInstance = 0
          /\ \A c \in Callers :
               /\ calls[c].pc # "ready"
               /\ calls[c].out.state # "compiled")
  /\ \A c \in Callers :
       (InitFailed /\ calls[c].pc = "await")
         ~> (calls[c].pc = "done" /\ calls[c].out = Rejected)

C29_Witness ==
  /\ InitFailed
  /\ \A c \in Callers :
       /\ calls[c].pc = "done"
       /\ calls[c].awaits = 1
       /\ calls[c].out = Rejected

\* C30: the name-to-index table compile reads from the fullmatch program
\* is the table of the anchored and of the partial program too, so that
\* groups and group(name) of a Match of match() or search() read the slot
\* the program that ran gave to the group of that name
C30_TableFitsAllPrograms ==
  pattern.state = "compiled" =>
    /\ getNamedGroups(pattern.fullmatchRegex) = pattern.namedGroups
    /\ getNamedGroups(pattern.anchoredRegex) = pattern.namedGroups
    /\ getNamedGroups(pattern.partialRegex) = pattern.namedGroups
    /\ (Matched /\ op \in {"match", "search"}) =>
         LET own == getNamedGroups(IF op = "match" THEN pattern.anchoredRegex
                                   ELSE pattern.partialRegex)
             m   == result.match
         IN  \A nm \in DOMAIN own :
               /\ group(m, StrKey(nm)) = m.pcreMatch[own[nm] + 1].value
               /\ nm \in DOMAIN m.groups =>
                    m.groups[nm] = m.pcreMatch[own[nm] + 1].value

\* search found the named group, second group of the pattern, away from
\* the start of the text
C30_Witness ==
  /\ op = "search"
  /\ Matched
  /\ <<"n">> \in DOMAIN pattern.namedGroups
  /\ pattern.namedGroups[<<"n">>] = 2
  /\ result.match.pcreMatch[1].index > 0
  /\ <<"n">> \in DOMAIN result.match.groups
  /\ result.match.groups[<<"n">>] = Str(<<"a">>)

\* text with its upper-case letters made lower-case
LowerChar(c) == IF c = "A" THEN "a" ELSE IF c = "B" THEN "b" ELSE c

Lower(t) == [i \in 1..Len(t) |-> LowerChar(t[i])]

Accepted == result.kind = "match" \/ (result.kind = "boolean" /\ result.bool)

\* C23: a Pattern compiled with the flag "i" accepts, in test and
\* fullmatch, a text that differs from a text it accepts in letter case
\* only; compiled without flags it does not
C23_FlagsTakeEffect ==
  (pattern.state = "compiled" /\ op \in {"test", "fullmatch"}
     /\ text # Lower(text)
     /\ CallText(op, pattern, Lower(text)) \notin {Null, BoolResult(FALSE)})
    => IF flags = Str(<<"i">>) THEN Accepted ELSE ~Accepted

\* the leading letters "a" of t
RECURSIVE LeadingAs(_)
LeadingAs(t) ==
  IF t # <<>> /\ Head(t) = "a" THEN 1 + LeadingAs(Tail(t)) ELSE 0

Lazy(p) ==
  \/ Len(p) >= 2 /\ SubAt(p, Len(p) - 1, <<"+", "?">>)
  \/ Len(p) >= 3 /\ SubAt(p, Len(p) - 2, <<"+", "?", ")">>)

\* C25: match with a+ on a text of k >= 1 letters "a" and another
\* character after them gives the k letters, with a+? the first "a"; the
\* same inside a named group
C25_GreedyAndLazy ==
  (/\ pattern.state = "compiled"
   /\ source \in {<<"a", "+">>, <<"a", "+", "?">>,
                  <<"(", "?", "P", "<", "m", ">", "a", "+", ")">>,
                  <<"(", "?", "P", "<", "m", ">", "a", "+", "?", ")">>}
   /\ op = "match"
   /\ LeadingAs(text) >= 1
   /\ Len(text) > LeadingAs(text))
    => /\ Matched
       /\ result.match.fullMatch =
            IF Lazy(source) THEN <<"a">> ELSE SubSeq(text, 1, LeadingAs(text))
       /\ <<"m">> \in DOMAIN pattern.namedGroups =>
            result.match.groups[<<"m">>] = Str(result.match.fullMatch)

C25_Witness ==
  /\ op = "match"
  /\ source = <<"a", "+", "?">>
  /\ text = <<"a", "a", "a", "b">>
  /\ Matched
  /\ result.match.fullMatch = <<"a">>

C25_WitnessGreedy ==
  /\ op = "match"
  /\ source = <<"a", "+">>
  /\ text = <<"a", "a", "a", "b">>
  /\ Matched
  /\ result.match.fullMatch = <<"a", "a", "a">>

====
